---- MODULE Spec2Model ----
(***************************************************************************)
(* Model of the DataMart sales API (FastAPI application).                  *)
(*                                                                         *)
(*   app/datamart.py       the shared table df, built once at import       *)
(*   app/main.py           auth_middleware in front of every route         *)
(*   app/routers/auth.py   POST /auth/login                                *)
(*   app/routers/sales.py  detail, total/avg and first_record routes       *)
(*   app/routers/utils.py  validate_dates, calculate_totals_and_averages   *)
(*   app.py                the dashboard (a client of the API)             *)
(*                                                                         *)
(* Text that the code parses (the Authorization header, the date query     *)
(* parameters) is a sequence of one-character strings, so that str.split   *)
(* and datetime.strptime are computed and not assumed.  Keys are opaque    *)
(* strings compared by equality.  NetAmount is held in integer cents.      *)
(*                                                                         *)
(* Specifications:                                                         *)
(*   Spec           the API serving one request at a time                  *)
(*   SpecLoad       the import of app/datamart.py, then the API            *)
(*   SpecAggregate  calculate_totals_and_averages on its own               *)
(*   SpecThreads    route functions running in the worker threads          *)
(*   SpecDashboard  the dashboard script and its session state             *)
(***************************************************************************)
EXTENDS Integers, Sequences, FiniteSets, TLC

VARIABLES
    df,        \* app.datamart.df, the shared table (mutated by filter_dataframe)
    loaded,    \* the table as datamart.py built it at import; never assigned again
    issued,    \* id tokens the identity provider has issued and will verify
    pc,        \* "idle" | "routed" | "done": where the request in flight is
    request,   \* the request in flight
    endpoint,  \* the route function call_next dispatched to, "none" if none
    signin,    \* outcome of the provider call made by login for this request
    response,  \* the response the client receives
    all_files, \* datamart.all_files: the rows of each snapshot file glob found
    threads,   \* the route function each worker thread runs, and its locals
    session_state, \* st.session_state of the dashboard
    page,      \* what the last run of the dashboard script has drawn
    sent       \* the last request the dashboard sent to the API

vars == <<df, loaded, issued, pc, request, endpoint, signin, response,
          all_files, threads, session_state, page, sent>>

\* The variables of the API process outside a request in flight.
apiVars == <<df, loaded, issued, pc, request, endpoint, signin, response,
             all_files>>

\* The variables of the dashboard process.
dashboardVars == <<session_state, page, sent>>

\* ------------------------------------------------------------------------
\* Bounds
\* ------------------------------------------------------------------------

\* Largest number of rows of the loaded table.
MaxRows == 2

\* Largest number of snapshot files glob finds.
MaxFiles == 2

\* Number of worker threads that run route functions at the same time.
MaxThreads == 2

\* ------------------------------------------------------------------------
\* Text
\* ------------------------------------------------------------------------

DigitChars == <<"0", "1", "2", "3", "4", "5", "6", "7", "8", "9">>

IsDigit(c) == \E i \in 1..Len(DigitChars) : DigitChars[i] = c

DigitValue(c) == (CHOOSE i \in 1..Len(DigitChars) : DigitChars[i] = c) - 1

AllDigits(s) == \A i \in 1..Len(s) : IsDigit(s[i])

RECURSIVE ToInt(_)
\* int() of a non-empty run of decimal digits.
ToInt(s) ==
    IF Len(s) = 0 THEN 0
    ELSE 10 * ToInt(SubSeq(s, 1, Len(s) - 1)) + DigitValue(s[Len(s)])

\* The least element of a set of positions, 0 for the empty set.
FirstOf(positions) ==
    IF positions = {} THEN 0
    ELSE CHOOSE i \in positions : \A j \in positions : i <= j

\* str.find(sep) + 1: the first position where sep occurs in s, 0 if none.
Find(s, sep) ==
    FirstOf({i \in 1..(Len(s) - Len(sep) + 1) :
                SubSeq(s, i, i + Len(sep) - 1) = sep})

RECURSIVE Split(_, _)
\* The pieces of s given the first position i of sep in s (0 if none).
SplitAt(s, sep, i) ==
    IF i = 0 THEN <<s>>
    ELSE <<SubSeq(s, 1, i - 1)>> \o Split(SubSeq(s, i + Len(sep), Len(s)), sep)

\* str.split(sep): the pieces of s between the occurrences of sep, left to
\* right; a text without sep is a single piece.
Split(s, sep) == SplitAt(s, sep, Find(s, sep))

\* ------------------------------------------------------------------------
\* Calendar dates and datetime.strptime(text, '%Y-%m-%d')
\* ------------------------------------------------------------------------

MkDate(y, m, d) == [year |-> y, month |-> m, day |-> d]

\* date.__le__: calendar order.
DateLE(a, b) ==
    \/ a.year < b.year
    \/ a.year = b.year /\ a.month < b.month
    \/ a.year = b.year /\ a.month = b.month /\ a.day <= b.day

IsLeap(y) == (y % 4 = 0 /\ y % 100 # 0) \/ y % 400 = 0

DaysInMonth(y, m) ==
    IF m = 2 THEN (IF IsLeap(y) THEN 29 ELSE 28)
    ELSE IF m \in {4, 6, 9, 11} THEN 30 ELSE 31

\* %Y is the regular expression \d\d\d\d.
MatchesYear(t) == Len(t) = 4 /\ AllDigits(t)

\* %m is 1[0-2]|0[1-9]|[1-9]: the leading zero is optional.
MatchesMonth(t) ==
    \/ Len(t) = 2 /\ t[1] = "1" /\ t[2] \in {"0", "1", "2"}
    \/ Len(t) = 2 /\ t[1] = "0" /\ IsDigit(t[2]) /\ t[2] # "0"
    \/ Len(t) = 1 /\ IsDigit(t[1]) /\ t[1] # "0"

\* %d is 3[0-1]|[1-2]\d|0[1-9]|[1-9]| [1-9]: the leading zero is optional
\* and may be a space.
MatchesDay(t) ==
    \/ Len(t) = 2 /\ t[1] = "3" /\ t[2] \in {"0", "1"}
    \/ Len(t) = 2 /\ t[1] \in {"1", "2"} /\ IsDigit(t[2])
    \/ Len(t) = 2 /\ t[1] \in {"0", " "} /\ IsDigit(t[2]) /\ t[2] # "0"
    \/ Len(t) = 1 /\ IsDigit(t[1]) /\ t[1] # "0"

DayDigits(t) == IF t[1] = " " THEN SubSeq(t, 2, Len(t)) ELSE t

\* datetime(y, m, d): ValueError for year 0 or a day the month does not have.
CheckedDate(y, m, d) ==
    IF y >= 1 /\ d <= DaysInMonth(y, m)
    THEN [ok |-> TRUE, date |-> MkDate(y, m, d)]
    ELSE [ok |-> FALSE]

\* The three fields of the pattern matched against the three pieces.
ParseFields(parts) ==
    IF /\ Len(parts) = 3
       /\ MatchesYear(parts[1])
       /\ MatchesMonth(parts[2])
       /\ MatchesDay(parts[3])
    THEN CheckedDate(ToInt(parts[1]), ToInt(parts[2]), ToInt(DayDigits(parts[3])))
    ELSE [ok |-> FALSE]

\* datetime.strptime(text, '%Y-%m-%d').date(): [ok |-> TRUE, date |-> d], or
\* [ok |-> FALSE] where strptime raises ValueError (the text does not match
\* the pattern, data remains after the day, or the day is out of range for
\* the month).  The pattern's fields hold no '-', so the text matches exactly
\* when its three '-'-separated pieces match the three fields.
strptime(text) == ParseFields(Split(text, <<"-">>))

\* validate_dates on the two parse results: a ValueError from either text
\* becomes HTTPException(400).
ValidateParsed(s, e) ==
    IF s.ok /\ e.ok
    THEN [raised |-> FALSE, start |-> s.date, end |-> e.date]
    ELSE [raised |-> TRUE, status_code |-> 400,
          detail |-> "Invalid date format. Use YYYY-MM-DD."]

\* validate_dates: both texts are parsed, start first.
validate_dates(start_date, end_date) ==
    ValidateParsed(strptime(start_date), strptime(end_date))

\* ------------------------------------------------------------------------
\* The table (a pandas DataFrame): its columns and its rows in index order
\* ------------------------------------------------------------------------

ColumnNames == {"KeyEmployee", "KeyProduct", "KeyStore", "KeyDate", "Tickets"}

\* RangeIndex(n): the labels 0..n-1 in order.
RangeIndex(n) == [i \in 1..n |-> i - 1]

\* A table: the column names, the index label of each row, and the rows.
Frame(rows) ==
    [columns |-> ColumnNames, index |-> RangeIndex(Len(rows)), rows |-> rows]

\* A stored KeyDate is a timestamp; datetime.date values have no hour.
Timestamp(y, m, d, h) == [year |-> y, month |-> m, day |-> d, hour |-> h]

\* Mutant: a date is read back day first where that is a date.
to_datetime_dayfirst(v) ==
    IF "hour" \in DOMAIN v THEN v
    ELSE IF v.day <= 12 THEN Timestamp(v.year, v.day, v.month, 0)
    ELSE Timestamp(v.year, v.month, v.day, 0)

\* pd.to_datetime on one value: a timestamp stays, a date becomes midnight.
to_datetime(v) ==
    IF "hour" \in DOMAIN v THEN v ELSE Timestamp(v.year, v.month, v.day, 0)

\* Series.dt.date on one value: the calendar date, the time of day dropped.
dt_date(ts) == MkDate(ts.year, ts.month, ts.day)

\* df['KeyDate'] = pd.to_datetime(df['KeyDate']).dt.date
\* The assignment replaces the KeyDate column of the shared table in place.
CoerceKeyDate(frame) ==
    [frame EXCEPT !.rows =
        [i \in 1..Len(frame.rows) |->
            [frame.rows[i] EXCEPT !.KeyDate = dt_date(to_datetime(@))]]]

\* Mutant: the key is always looked up in KeyEmployee.
FilterMaskEmployeeOnly(row, key, start, end, key_column) ==
    /\ row.KeyEmployee = key
    /\ DateLE(start, row.KeyDate)
    /\ DateLE(row.KeyDate, end)

\* Mutant: the end bound is exclusive.
FilterMaskEndExclusive(row, key, start, end, key_column) ==
    /\ row[key_column] = key
    /\ DateLE(start, row.KeyDate)
    /\ DateLE(row.KeyDate, end) /\ row.KeyDate # end

\* The boolean mask of filter_dataframe for one row.
FilterMask(row, key, start, end, key_column) ==
    /\ row[key_column] = key
    /\ DateLE(start, row.KeyDate)
    /\ DateLE(row.KeyDate, end)

RECURSIVE Pick(_, _)
\* The entries whose entry of the boolean mask is true, in order.
Pick(rows, mask) ==
    IF Len(rows) = 0 THEN <<>>
    ELSE (IF Head(mask) THEN <<Head(rows)>> ELSE <<>>)
            \o Pick(Tail(rows), Tail(mask))

\* df[mask]: boolean indexing keeps the columns and the masked rows, each
\* with its index label.
SelectRows(frame, mask) ==
    [frame EXCEPT !.rows = Pick(frame.rows, mask),
                  !.index = Pick(frame.index, mask)]

\* Mutant: the selection is stored back as the shared table.
FilterCoercedStoresSelection(coerced, key, v, key_column) ==
    [raised |-> FALSE,
     df |-> SelectRows(coerced,
                  [i \in 1..Len(coerced.rows) |->
                      FilterMask(coerced.rows[i], key, v.start, v.end, key_column)]),
     value |-> SelectRows(coerced,
                  [i \in 1..Len(coerced.rows) |->
                      FilterMask(coerced.rows[i], key, v.start, v.end, key_column)])]

\* df[mask] on the coerced table, for validated dates v.
FilterCoerced(coerced, key, v, key_column) ==
    [raised |-> FALSE, df |-> coerced,
     value |-> SelectRows(coerced,
                  [i \in 1..Len(coerced.rows) |->
                      FilterMask(coerced.rows[i], key, v.start, v.end, key_column)])]

\* Mutant: the coercion runs before the dates are validated.
FilterValidatedAfterCoercion(frame, key, v, key_column) ==
    IF v.raised
    THEN [raised |-> TRUE, http |-> TRUE, status_code |-> v.status_code,
          detail |-> v.detail, df |-> CoerceKeyDate(frame)]
    ELSE FilterCoerced(CoerceKeyDate(frame), key, v, key_column)

\* filter_dataframe after its validate_dates call returned or raised v.
FilterValidated(frame, key, v, key_column) ==
    IF v.raised
    THEN [raised |-> TRUE, http |-> TRUE, status_code |-> v.status_code,
          detail |-> v.detail, df |-> frame]
    ELSE FilterCoerced(CoerceKeyDate(frame), key, v, key_column)

\* filter_dataframe: dates are validated first; only then is the shared
\* table's KeyDate column coerced, and the mask applied to the coerced table.
\* df is the shared table after the call.
filter_dataframe(frame, key, start_date, end_date, key_column) ==
    FilterValidated(frame, key, validate_dates(start_date, end_date), key_column)

\* Mutant: an empty result is returned as an empty array.
SalesResultNever404(f, what) ==
    IF f.raised THEN f
    ELSE [raised |-> FALSE, df |-> f.df, value |-> [records |-> f.value.rows]]

\* The lines of a detail route after its filter_dataframe call: 404 on an
\* empty result, else the rows as records.
SalesResult(f, what) ==
    IF f.raised THEN f
    ELSE IF Len(f.value.rows) = 0
    THEN [raised |-> TRUE, http |-> TRUE, status_code |-> 404,
          detail |-> "No sales data found for the given " \o what
                        \o " and date range.",
          df |-> f.df]
    ELSE [raised |-> FALSE, df |-> f.df, value |-> [records |-> f.value.rows]]

\* The body shared by get_sales_by_employee / _product / _store.
get_sales(frame, key, start_date, end_date, key_column, what) ==
    SalesResult(filter_dataframe(frame, key, start_date, end_date, key_column), what)

\* Mutant: key equality within a default date bound.
SelectByKeyDated(frame, key_column, key) ==
    SelectRows(frame,
        [i \in 1..Len(frame.rows) |->
            /\ frame.rows[i][key_column] = key
            /\ DateLE(frame.rows[i].KeyDate, MkDate(2023, 11, 2))])

\* df[df[key_column] == key]: key equality only.
SelectByKey(frame, key_column, key) ==
    SelectRows(frame, [i \in 1..Len(frame.rows) |-> frame.rows[i][key_column] = key])

\* ------------------------------------------------------------------------
\* calculate_totals_and_averages
\* ------------------------------------------------------------------------

\* A Tickets value read from the snapshot is a struct (a dict holding one
\* NetAmount) or a list of such structs.
TicketStruct(amount) == [kind |-> "struct", NetAmount |-> amount]

TicketList(amounts) ==
    [kind |-> "list",
     items |-> [i \in 1..Len(amounts) |-> TicketStruct(amounts[i])]]

\* x['NetAmount'] evaluates on a struct only; on a list the subscript raises.
HasNetAmount(x) == x.kind = "struct"

RECURSIVE SeqSum(_)
SeqSum(s) == IF Len(s) = 0 THEN 0 ELSE s[1] + SeqSum(Tail(s))

\* filtered_df['Tickets'].apply(lambda x: x['NetAmount']): one value per row.
NetAmounts(frame) == [i \in 1..Len(frame.rows) |-> frame.rows[i].Tickets.NetAmount]

\* Series.sum(): 0 for an empty series.
series_sum(values) == [nan |-> FALSE, num |-> SeqSum(values), den |-> 1]

\* Mutant: the sum in place of the mean.
series_mean_as_sum(values) ==
    IF Len(values) = 0 THEN [nan |-> TRUE]
    ELSE [nan |-> FALSE, num |-> SeqSum(values), den |-> 1]

\* Series.mean(): the sum over the number of values; NaN for an empty series.
series_mean(values) ==
    IF Len(values) = 0 THEN [nan |-> TRUE]
    ELSE [nan |-> FALSE, num |-> SeqSum(values), den |-> Len(values)]

Abs(n) == IF n < 0 THEN -n ELSE n

\* num/den rounded to the nearest integer, ties to even (den > 0, num >= 0).
RoundHalfEven(num, den) ==
    IF \/ 2 * (num % den) > den
       \/ (2 * (num % den) = den /\ (num \div den) % 2 = 1)
    THEN (num \div den) + 1
    ELSE num \div den

Pad(n, width) ==
    IF width = 3 /\ n < 10 THEN "00" \o ToString(n)
    ELSE IF (width = 3 /\ n < 100) \/ (width = 2 /\ n < 10)
    THEN "0" \o ToString(n)
    ELSE ToString(n)

RECURSIVE Grouped(_)
\* The ',' format option: the integer part in groups of three digits.
Grouped(n) ==
    IF n < 1000 THEN ToString(n)
    ELSE Grouped(n \div 1000) \o "," \o Pad(n % 1000, 3)

\* A whole number of cents as grouped units, '.', and two decimals.
FixedTwo(cents) == Grouped(cents \div 100) \o "." \o Pad(cents % 100, 2)

\* f"${x:,.2f}" of an amount held in cents (as num/den): "$nan" for NaN,
\* else two decimals and thousands separators.
FormatCurrency(x) ==
    IF x.nan THEN "$nan"
    ELSE "$" \o (IF x.num < 0 THEN "-" ELSE "")
             \o FixedTwo(RoundHalfEven(Abs(x.num), x.den))

\* Mutant: the 404 is decided on the number of rows.
calculate_totals_and_averages_rows(filtered_df) ==
    IF Len(filtered_df.rows) = 0
    THEN [raised |-> TRUE, http |-> TRUE, status_code |-> 404,
          detail |-> "No sales data found."]
    ELSE IF "Tickets" \notin filtered_df.columns
    THEN [raised |-> TRUE, http |-> FALSE]
    ELSE IF \E i \in 1..Len(filtered_df.rows) :
                ~HasNetAmount(filtered_df.rows[i].Tickets)
    THEN [raised |-> TRUE, http |-> FALSE]
    ELSE [raised |-> FALSE,
          value |-> [total_sales |->
                        FormatCurrency(series_sum(NetAmounts(filtered_df))),
                     average_sales |->
                        FormatCurrency(series_mean(NetAmounts(filtered_df)))]]

\* calculate_totals_and_averages: 404 only for a frame without columns;
\* filtered_df['Tickets'] raises KeyError on a frame without that column, and
\* a Tickets value without the 'NetAmount' subscript raises out of apply
\* (neither is an HTTPException); else the formatted sum and mean of one
\* NetAmount per row.
calculate_totals_and_averages(filtered_df) ==
    IF Cardinality(filtered_df.columns) = 0
    THEN [raised |-> TRUE, http |-> TRUE, status_code |-> 404,
          detail |-> "No sales data found."]
    ELSE IF "Tickets" \notin filtered_df.columns
    THEN [raised |-> TRUE, http |-> FALSE]
    ELSE IF \E i \in 1..Len(filtered_df.rows) :
                ~HasNetAmount(filtered_df.rows[i].Tickets)
    THEN [raised |-> TRUE, http |-> FALSE]
    ELSE [raised |-> FALSE,
          value |-> [total_sales |->
                        FormatCurrency(series_sum(NetAmounts(filtered_df))),
                     average_sales |->
                        FormatCurrency(series_mean(NetAmounts(filtered_df)))]]

\* The body shared by get_total_avg_sales_by_store / _product / _employee.
get_total_avg(frame, key_column, key) ==
    calculate_totals_and_averages(SelectByKey(frame, key_column, key))

\* Mutant: the last row in place of row 0.
get_first_record_last(frame) ==
    IF Len(frame.rows) = 0
    THEN [raised |-> TRUE, http |-> TRUE, status_code |-> 404,
          detail |-> "No data available."]
    ELSE [raised |-> FALSE, value |-> [record |-> frame.rows[Len(frame.rows)]]]

\* get_first_record: 404 on a table without rows, else row 0 as a dict.
get_first_record(frame) ==
    IF Len(frame.rows) = 0
    THEN [raised |-> TRUE, http |-> TRUE, status_code |-> 404,
          detail |-> "No data available."]
    ELSE [raised |-> FALSE, value |-> [record |-> frame.rows[1]]]

\* ------------------------------------------------------------------------
\* Authentication
\* ------------------------------------------------------------------------

\* Mutant: the login path is not excluded.
excluded_paths_without_login == {"/docs", "/openapi.json"}

excluded_paths == {"/auth/login", "/docs", "/openapi.json"}

Bearer == <<"B", "e", "a", "r", "e", "r", " ">>

NoHeader == [present |-> FALSE, value |-> <<>>]

Header(text) == [present |-> TRUE, value |-> text]

\* firebase_config.verify_token_local: the provider verifies the id tokens it
\* has issued and raises on every other text.
verify_token_local(token, tokens) == token \in tokens

\* split("Bearer ")[1] exists and verify_token_local accepts it.
TokenAccepted(parts, tokens) ==
    Len(parts) >= 2 /\ verify_token_local(parts[2], tokens)

\* The try block of auth_middleware: headers.get("Authorization") is None
\* when the header is absent (None.split raises), split("Bearer ")[1] raises
\* when the text holds no "Bearer ", and verify_token_local raises on a token
\* the provider rejects.  Every exception becomes HTTPException(401).
auth_middleware(req, tokens) ==
    IF req.path \in excluded_paths THEN [raised |-> FALSE]
    ELSE IF /\ req.authorization.present
            /\ TokenAccepted(Split(req.authorization.value, Bearer), tokens)
    THEN [raised |-> FALSE]
    ELSE [raised |-> TRUE, http |-> TRUE, status_code |-> 401,
          detail |-> "Invalid or missing credentials"]

\* ------------------------------------------------------------------------
\* Responses
\* ------------------------------------------------------------------------

NoResponse == [status |-> 0]

\* What the framework answers for an exception no handler converts.
InternalServerError == [status |-> 500, body |-> [text |-> "Internal Server Error"]]

\* A route function's outcome as a response: its return value with 200; an
\* HTTPException raised in a route is converted by the framework's exception
\* handler to its status code and detail; any other exception is a 500.
RouteResponse(result) ==
    IF ~result.raised THEN [status |-> 200, body |-> result.value]
    ELSE IF result.http
    THEN [status |-> result.status_code, body |-> [detail |-> result.detail]]
    ELSE InternalServerError

\* An exception raised by a function registered with @app.middleware("http")
\* is raised outside the layer that converts HTTPException (the framework
\* wraps only the router in it), so it reaches the server-error layer like
\* any other exception and the client is answered 500 whatever status_code
\* the exception carries.
MiddlewareResponse(exc) == InternalServerError

\* ------------------------------------------------------------------------
\* Inputs
\* ------------------------------------------------------------------------

\* Rows the snapshot files may hold.  Timestamps carry a time of day; one
\* row's Tickets is a list of two entries.
RowPool ==
    { [KeyEmployee |-> "1|343", KeyProduct |-> "1|44733", KeyStore |-> "1|023",
       KeyDate |-> Timestamp(2023, 11, 1, 0), Tickets |-> TicketStruct(1050)],
      [KeyEmployee |-> "1|343", KeyProduct |-> "1|44733", KeyStore |-> "1|024",
       KeyDate |-> Timestamp(2023, 11, 3, 18), Tickets |-> TicketStruct(250)],
      [KeyEmployee |-> "1|344", KeyProduct |-> "1|343", KeyStore |-> "1|023",
       KeyDate |-> Timestamp(2023, 11, 2, 9), Tickets |-> TicketStruct(123456)],
      [KeyEmployee |-> "1|344", KeyProduct |-> "1|44733", KeyStore |-> "1|024",
       KeyDate |-> Timestamp(2023, 10, 31, 23), Tickets |-> TicketStruct(76)],
      [KeyEmployee |-> "1|343", KeyProduct |-> "1|343", KeyStore |-> "1|023",
       KeyDate |-> Timestamp(2023, 11, 2, 0), Tickets |-> TicketList(<<100, 200>>)] }

Tables == UNION {[1..n -> RowPool] : n \in 0..MaxRows}

\* Keys a request may ask for; "1|343" is an employee key and a product key.
Keys == {"1|343", "1|023"}

\* Date texts: "2023-11-01", "2023-11-03", "2023-11-2", "02/11/2023".
DateTexts ==
    { <<"2", "0", "2", "3", "-", "1", "1", "-", "0", "1">>,
      <<"2", "0", "2", "3", "-", "1", "1", "-", "0", "3">>,
      <<"2", "0", "2", "3", "-", "1", "1", "-", "2">>,
      <<"0", "2", "/", "1", "1", "/", "2", "0", "2", "3">> }

\* The id token the provider issues to the registered user, and a token it
\* never issued (forged or expired).
UserToken == <<"t", "1">>

StaleToken == <<"t", "0">>

\* Authorization headers: absent, the bare token without "Bearer ", and
\* "Bearer <token>" for both tokens.
AuthHeaders ==
    {NoHeader, Header(UserToken), Header(Bearer \o UserToken),
     Header(Bearer \o StaleToken)}

Credentials ==
    { [email |-> "test@mail.com", password |-> "Test123"],
      [email |-> "test@mail.com", password |-> "wrong"] }

RegisteredUsers == { [email |-> "test@mail.com", password |-> "Test123"] }

DetailPaths == {"/sales/employee/", "/sales/product/", "/sales/store/"}

TotalAvgPaths ==
    {"/sales/employee/total_avg/", "/sales/product/total_avg/",
     "/sales/store/total_avg/"}

\* The key column each sales route names in its selection.
KeyColumn(path) ==
    CASE path \in {"/sales/employee/", "/sales/employee/total_avg/"} -> "KeyEmployee"
      [] path \in {"/sales/product/", "/sales/product/total_avg/"} -> "KeyProduct"
      [] path \in {"/sales/store/", "/sales/store/total_avg/"} -> "KeyStore"

\* The noun a detail route puts in its 404 message.
RouteNoun(path) ==
    CASE path = "/sales/employee/" -> "employee"
      [] path = "/sales/product/" -> "product"
      [] path = "/sales/store/" -> "store"

Requests ==
    {[path |-> p, authorization |-> h,
      params |-> [key |-> k, start_date |-> s, end_date |-> e]] :
        p \in DetailPaths, h \in AuthHeaders, k \in Keys,
        s \in DateTexts, e \in DateTexts}
    \cup
    {[path |-> p, authorization |-> h, params |-> [key |-> k]] :
        p \in TotalAvgPaths, h \in AuthHeaders, k \in Keys}
    \cup
    {[path |-> p, authorization |-> h, params |-> [none |-> TRUE]] :
        p \in {"/sales/first_record/", "/openapi.json"}, h \in AuthHeaders}
    \cup
    {[path |-> "/auth/login", authorization |-> h, params |-> c] :
        h \in AuthHeaders, c \in Credentials}

NoRequest == [path |-> "none"]

NoSignIn == [called |-> FALSE]

\* No route function is running in a worker thread.
NoThreads == <<>>

\* The dashboard is not running: no session, nothing drawn.
NoSession == [running |-> FALSE]

NoPage == <<>>

\* firebase_auth.sign_in_with_email_and_password: the provider returns the
\* user's id token for registered credentials, and the call can fail for
\* any credentials (rejected credentials, or the provider unreachable).
SignInOutcomes(credentials) ==
    {[called |-> TRUE, ok |-> FALSE, error |-> "ConnectionError"]}
    \cup
    (IF credentials \in RegisteredUsers
     THEN {[called |-> TRUE, ok |-> TRUE, idToken |-> UserToken]}
     ELSE {[called |-> TRUE, ok |-> FALSE, error |-> "INVALID_LOGIN_CREDENTIALS"]})

\* login: the provider's id token as {"token": ...}; any exception of the
\* provider call becomes HTTPException(400) with str(e) as detail.
login(outcome) ==
    IF outcome.ok THEN [raised |-> FALSE, value |-> [token |-> outcome.idToken]]
    ELSE [raised |-> TRUE, http |-> TRUE, status_code |-> 400,
          detail |-> outcome.error]

\* ------------------------------------------------------------------------
\* State machine: one request at a time goes through the middleware, then
\* through its route, then its response is sent
\* ------------------------------------------------------------------------

Init ==
    /\ loaded \in {Frame(rows) : rows \in Tables}
    /\ df = loaded
    /\ issued = {}
    /\ pc = "idle"
    /\ request = NoRequest
    /\ endpoint = "none"
    /\ signin = NoSignIn
    /\ response = NoResponse
    /\ all_files = <<loaded.rows>>
    /\ threads = NoThreads
    /\ session_state = NoSession
    /\ page = NoPage
    /\ sent = NoRequest

\* The middleware's outcome a: call_next is awaited when it raised nothing
\* (no response yet), else the exception leaves the middleware.
Dispatch(a) == IF a.raised THEN MiddlewareResponse(a) ELSE NoResponse

\* auth_middleware on an incoming request: call_next is reached only when
\* the path is excluded or the try block raised nothing.
AuthMiddleware ==
    /\ pc = "idle"
    /\ \E req \in Requests :
        /\ request' = req
        /\ response' = Dispatch(auth_middleware(req, issued))
    /\ pc' = IF response' = NoResponse THEN "routed" ELSE "done"
    /\ UNCHANGED <<df, loaded, issued, endpoint, signin, all_files, threads,
                 session_state, page, sent>>

\* POST /auth/login
Login ==
    /\ pc = "routed"
    /\ request.path = "/auth/login"
    /\ \E outcome \in SignInOutcomes(request.params) :
        /\ signin' = outcome
        /\ issued' = IF outcome.ok THEN issued \cup {outcome.idToken} ELSE issued
        /\ response' = RouteResponse(login(outcome))
    /\ endpoint' = "login"
    /\ pc' = "done"
    /\ UNCHANGED <<df, loaded, request, all_files, threads,
                 session_state, page, sent>>

\* The end of a detail route: the shared table is as filter_dataframe left
\* it, and the outcome r is answered.
ServeDetail(r) ==
    /\ df' = r.df
    /\ response' = RouteResponse(r)
    /\ pc' = "done"

\* GET /sales/employee/
GetSalesByEmployee ==
    /\ pc = "routed"
    /\ request.path = "/sales/employee/"
    /\ ServeDetail(get_sales(df, request.params.key, request.params.start_date,
                             request.params.end_date, "KeyEmployee", "employee"))
    /\ endpoint' = "get_sales_by_employee"
    /\ UNCHANGED <<loaded, issued, request, signin, all_files, threads,
                 session_state, page, sent>>

\* GET /sales/product/
GetSalesByProduct ==
    /\ pc = "routed"
    /\ request.path = "/sales/product/"
    /\ ServeDetail(get_sales(df, request.params.key, request.params.start_date,
                             request.params.end_date, "KeyProduct", "product"))
    /\ endpoint' = "get_sales_by_product"
    /\ UNCHANGED <<loaded, issued, request, signin, all_files, threads,
                 session_state, page, sent>>

\* GET /sales/store/
GetSalesByStore ==
    /\ pc = "routed"
    /\ request.path = "/sales/store/"
    /\ ServeDetail(get_sales(df, request.params.key, request.params.start_date,
                             request.params.end_date, "KeyStore", "store"))
    /\ endpoint' = "get_sales_by_store"
    /\ UNCHANGED <<loaded, issued, request, signin, all_files, threads,
                 session_state, page, sent>>

\* GET /sales/store/total_avg/
GetTotalAvgSalesByStore ==
    /\ pc = "routed"
    /\ request.path = "/sales/store/total_avg/"
    /\ response' = RouteResponse(get_total_avg(df, "KeyStore", request.params.key))
    /\ endpoint' = "get_total_avg_sales_by_store"
    /\ pc' = "done"
    /\ UNCHANGED <<df, loaded, issued, request, signin, all_files, threads,
                 session_state, page, sent>>

\* GET /sales/product/total_avg/
GetTotalAvgSalesByProduct ==
    /\ pc = "routed"
    /\ request.path = "/sales/product/total_avg/"
    /\ response' = RouteResponse(get_total_avg(df, "KeyProduct", request.params.key))
    /\ endpoint' = "get_total_avg_sales_by_product"
    /\ pc' = "done"
    /\ UNCHANGED <<df, loaded, issued, request, signin, all_files, threads,
                 session_state, page, sent>>

\* GET /sales/employee/total_avg/
GetTotalAvgSalesByEmployee ==
    /\ pc = "routed"
    /\ request.path = "/sales/employee/total_avg/"
    /\ response' = RouteResponse(get_total_avg(df, "KeyEmployee", request.params.key))
    /\ endpoint' = "get_total_avg_sales_by_employee"
    /\ pc' = "done"
    /\ UNCHANGED <<df, loaded, issued, request, signin, all_files, threads,
                 session_state, page, sent>>

\* GET /sales/first_record/
GetFirstRecord ==
    /\ pc = "routed"
    /\ request.path = "/sales/first_record/"
    /\ response' = RouteResponse(get_first_record(df))
    /\ endpoint' = "get_first_record"
    /\ pc' = "done"
    /\ UNCHANGED <<df, loaded, issued, request, signin, all_files, threads,
                 session_state, page, sent>>

\* GET /openapi.json
OpenApi ==
    /\ pc = "routed"
    /\ request.path = "/openapi.json"
    /\ response' = [status |-> 200, body |-> [schema |-> "openapi"]]
    /\ endpoint' = "openapi"
    /\ pc' = "done"
    /\ UNCHANGED <<df, loaded, issued, request, signin, all_files, threads,
                 session_state, page, sent>>

\* The response has been sent; the server waits for the next request.
SendResponse ==
    /\ pc = "done"
    /\ pc' = "idle"
    /\ request' = NoRequest
    /\ endpoint' = "none"
    /\ signin' = NoSignIn
    /\ response' = NoResponse
    /\ UNCHANGED <<df, loaded, issued, all_files, threads,
                 session_state, page, sent>>

Next ==
    \/ AuthMiddleware
    \/ Login
    \/ GetSalesByEmployee
    \/ GetSalesByProduct
    \/ GetSalesByStore
    \/ GetTotalAvgSalesByStore
    \/ GetTotalAvgSalesByProduct
    \/ GetTotalAvgSalesByEmployee
    \/ GetFirstRecord
    \/ OpenApi
    \/ SendResponse

Spec == Init /\ [][Next]_vars

\* ------------------------------------------------------------------------
\* The import of app/datamart.py, then the API
\* ------------------------------------------------------------------------

\* pd.read_parquet(file): the rows of the file under their own RangeIndex.
read_parquet(file) == Frame(file)

RECURSIVE ConcatRows(_)
\* The rows of the frames, frame after frame.
ConcatRows(objs) ==
    IF Len(objs) = 0 THEN <<>> ELSE Head(objs).rows \o ConcatRows(Tail(objs))

RECURSIVE ConcatIndex(_)
\* The index labels of the frames, frame after frame.
ConcatIndex(objs) ==
    IF Len(objs) = 0 THEN <<>> ELSE Head(objs).index \o ConcatIndex(Tail(objs))

\* Mutant: ignore_index left out, every row keeps its label within its file.
concat_keeping_index(objs) ==
    IF Len(objs) = 0
    THEN [raised |-> TRUE, http |-> FALSE,
          error |-> "ValueError: No objects to concatenate"]
    ELSE [raised |-> FALSE,
          value |-> [columns |-> UNION {objs[k].columns : k \in 1..Len(objs)},
                     index |-> ConcatIndex(objs),
                     rows |-> ConcatRows(objs)]]

\* pd.concat(objs, ignore_index=True): ValueError on an empty list; else the
\* rows of the frames in list order under a new RangeIndex.
concat(objs) ==
    IF Len(objs) = 0
    THEN [raised |-> TRUE, http |-> FALSE,
          error |-> "ValueError: No objects to concatenate"]
    ELSE [raised |-> FALSE,
          value |-> [columns |-> UNION {objs[k].columns : k \in 1..Len(objs)},
                     index |-> RangeIndex(Len(ConcatRows(objs))),
                     rows |-> ConcatRows(objs)]]

\* Before app.datamart has been imported the name df is not bound.
NotLoaded == [unbound |-> TRUE]

\* Rows of the snapshot files at import: two sales of one employee.
SnapshotRows ==
    {r \in RowPool : r.KeyEmployee = "1|343" /\ r.KeyProduct = "1|44733"}

\* A snapshot file: its rows in file order; a file may hold no row.
SnapshotFiles == UNION {[1..n -> SnapshotRows] : n \in 0..MaxRows}

RECURSIVE TotalRows(_)
TotalRows(files) ==
    IF Len(files) = 0 THEN 0 ELSE Len(Head(files)) + TotalRows(Tail(files))

\* What glob.glob can return: no file, or files in some order of discovery.
FileLists ==
    {files \in UNION {[1..k -> SnapshotFiles] : k \in 0..MaxFiles} :
        TotalRows(files) <= MaxRows}

InitLoad ==
    /\ all_files \in FileLists
    /\ df = NotLoaded
    /\ loaded = NotLoaded
    /\ issued = {}
    /\ pc = "import"
    /\ request = NoRequest
    /\ endpoint = "none"
    /\ signin = NoSignIn
    /\ response = NoResponse
    /\ threads = NoThreads
    /\ session_state = NoSession
    /\ page = NoPage
    /\ sent = NoRequest

\* The module body of app/datamart.py, given what pd.concat returned or
\* raised: an exception ends the import, and with it the start of the
\* process; else df is bound and the application starts serving.
Imported(c) ==
    IF c.raised
    THEN /\ pc' = "failed"
         /\ UNCHANGED <<df, loaded>>
    ELSE /\ pc' = "idle"
         /\ df' = c.value
         /\ loaded' = c.value

\* import app.datamart (at the import of app.routers.sales by app.main).
ImportDatamart ==
    /\ pc = "import"
    /\ Imported(concat([k \in 1..Len(all_files) |-> read_parquet(all_files[k])]))
    /\ UNCHANGED <<issued, request, endpoint, signin, response, all_files,
                   threads, session_state, page, sent>>

NextLoad == ImportDatamart \/ Next

SpecLoad == InitLoad /\ [][NextLoad]_vars

\* ------------------------------------------------------------------------
\* Route functions in worker threads.  The sales routes are plain def
\* functions, which the framework runs in a pool of threads: several run at
\* once on the one shared table, each statement of a route a step of its own.
\* ------------------------------------------------------------------------

Workers == 1..MaxThreads

IdleThread == [pc |-> "idle"]

\* Requests the middleware has let through to a sales route.
ThreadRequests ==
    {r \in Requests :
        /\ r.authorization = Header(Bearer \o UserToken)
        /\ r.path \in DetailPaths \cup TotalAvgPaths \cup {"/sales/first_record/"}
        /\ r.path \in DetailPaths =>
              /\ r.params.start_date = <<"2", "0", "2", "3", "-", "1", "1", "-", "0", "1">>
              /\ r.params.end_date \in
                    { <<"2", "0", "2", "3", "-", "1", "1", "-", "0", "3">>,
                      <<"0", "2", "/", "1", "1", "/", "2", "0", "2", "3">> }}

\* The first statement of the route function of a path.
Entry(path) ==
    IF path \in DetailPaths THEN "validate"
    ELSE IF path \in TotalAvgPaths THEN "key_mask"
    ELSE "first_record"

\* The shared table with its KeyDate column replaced by a column of values.
WithKeyDate(frame, column) ==
    [frame EXCEPT !.rows =
        [i \in 1..Len(frame.rows) |-> [frame.rows[i] EXCEPT !.KeyDate = column[i]]]]

\* The threads other than w that are inside the assignment to df['KeyDate'].
Assigning(w) == {u \in Workers \ {w} : threads[u].pc = "assigning"}

\* What a read of the shared table by thread w can give.  The column
\* assignment of another thread is not atomic and the table is not guarded
\* by a lock: a read that falls inside the assignment is a data race, which
\* sees the table before the assignment, sees it after, or finds the table
\* half-updated and raises.
Views(w) ==
    {[ok |-> TRUE, frame |-> df]}
    \cup {[ok |-> TRUE, frame |-> WithKeyDate(df, threads[u].column)] : u \in Assigning(w)}
    \cup {[ok |-> FALSE] : u \in Assigning(w)}

\* The route function of thread t has ended with a response.
Finished(t, resp) == [pc |-> "done", request |-> t.request, response |-> resp]

InitThreads ==
    /\ loaded \in {Frame(rows) : rows \in Tables}
    /\ df = loaded
    /\ issued = {UserToken}
    /\ pc = "idle"
    /\ request = NoRequest
    /\ endpoint = "none"
    /\ signin = NoSignIn
    /\ response = NoResponse
    /\ all_files = <<loaded.rows>>
    /\ threads = [w \in Workers |-> IdleThread]
    /\ session_state = NoSession
    /\ page = NoPage
    /\ sent = NoRequest

\* A request is handed to a free worker thread.
RunInThreadpool(w) ==
    /\ threads[w].pc = "idle"
    /\ \E req \in ThreadRequests :
          threads' = [threads EXCEPT ![w] = [pc |-> Entry(req.path), request |-> req]]
    /\ UNCHANGED <<apiVars, dashboardVars>>

\* The thread after validate_dates returned or raised v.
AfterValidate(t, v) ==
    IF v.raised
    THEN Finished(t, RouteResponse([raised |-> TRUE, http |-> TRUE,
                                    status_code |-> v.status_code,
                                    detail |-> v.detail]))
    ELSE [pc |-> "read_keydate", request |-> t.request,
          start |-> v.start, end |-> v.end]

\* filter_dataframe: start_date_dt, end_date_dt = validate_dates(...)
ThreadValidateDates(w) ==
    /\ threads[w].pc = "validate"
    /\ threads' = [threads EXCEPT ![w] =
            AfterValidate(@, validate_dates(@.request.params.start_date,
                                            @.request.params.end_date))]
    /\ UNCHANGED <<apiVars, dashboardVars>>

\* The thread after reading the KeyDate column of what it saw of the table.
AfterReadKeyDate(t, view) ==
    IF view.ok
    THEN [pc |-> "assign", column |->
            [i \in 1..Len(view.frame.rows) |->
                dt_date(to_datetime(view.frame.rows[i].KeyDate))]] @@ t
    ELSE Finished(t, InternalServerError)

\* filter_dataframe: pd.to_datetime(df['KeyDate']).dt.date, the right-hand
\* side of the assignment, computed into a new column.
ThreadReadKeyDate(w) ==
    /\ threads[w].pc = "read_keydate"
    /\ \E view \in Views(w) :
          threads' = [threads EXCEPT ![w] = AfterReadKeyDate(@, view)]
    /\ UNCHANGED <<apiVars, dashboardVars>>

\* filter_dataframe: df['KeyDate'] = ... starts to replace the column.
ThreadBeginAssign(w) ==
    /\ threads[w].pc = "assign"
    /\ threads' = [threads EXCEPT ![w] = [pc |-> "assigning"] @@ @]
    /\ UNCHANGED <<apiVars, dashboardVars>>

\* filter_dataframe: df['KeyDate'] = ... has replaced the column.
ThreadEndAssign(w) ==
    /\ threads[w].pc = "assigning"
    /\ df' = WithKeyDate(df, threads[w].column)
    /\ threads' = [threads EXCEPT ![w] = [pc |-> "filter_mask"] @@ @]
    /\ UNCHANGED <<loaded, issued, pc, request, endpoint, signin, response,
                   all_files, dashboardVars>>

\* The thread after computing the boolean mask of filter_dataframe.
AfterFilterMask(t, view) ==
    IF view.ok
    THEN [pc |-> "select", mask |->
            [i \in 1..Len(view.frame.rows) |->
                FilterMask(view.frame.rows[i], t.request.params.key, t.start,
                           t.end, KeyColumn(t.request.path))]] @@ t
    ELSE Finished(t, InternalServerError)

\* filter_dataframe: (df[key_column] == key) & (df['KeyDate'] >= ...) & ...
ThreadFilterMask(w) ==
    /\ threads[w].pc = "filter_mask"
    /\ \E view \in Views(w) :
          threads' = [threads EXCEPT ![w] = AfterFilterMask(@, view)]
    /\ UNCHANGED <<apiVars, dashboardVars>>

\* The thread after df[mask] and the rest of its detail route.
AfterSelect(t, view) ==
    IF view.ok
    THEN Finished(t, RouteResponse(
            SalesResult([raised |-> FALSE, df |-> view.frame,
                         value |-> SelectRows(view.frame, t.mask)],
                        RouteNoun(t.request.path))))
    ELSE Finished(t, InternalServerError)

\* filter_dataframe: return df[mask]; then the 404 test and to_dict of the
\* detail route, on the thread's own result.
ThreadSelect(w) ==
    /\ threads[w].pc = "select"
    /\ \E view \in Views(w) :
          threads' = [threads EXCEPT ![w] = AfterSelect(@, view)]
    /\ UNCHANGED <<apiVars, dashboardVars>>

\* The thread after computing the key mask of a total/avg route.
AfterKeyMask(t, view) ==
    IF view.ok
    THEN [pc |-> "key_select", mask |->
            [i \in 1..Len(view.frame.rows) |->
                view.frame.rows[i][KeyColumn(t.request.path)] = t.request.params.key]]
         @@ t
    ELSE Finished(t, InternalServerError)

\* get_total_avg_sales_by_*: df[key_column] == key
ThreadKeyMask(w) ==
    /\ threads[w].pc = "key_mask"
    /\ \E view \in Views(w) :
          threads' = [threads EXCEPT ![w] = AfterKeyMask(@, view)]
    /\ UNCHANGED <<apiVars, dashboardVars>>

\* The thread after df[mask] and calculate_totals_and_averages.
AfterKeySelect(t, view) ==
    IF view.ok
    THEN Finished(t, RouteResponse(
            calculate_totals_and_averages(SelectRows(view.frame, t.mask))))
    ELSE Finished(t, InternalServerError)

\* get_total_avg_sales_by_*: filtered_df = df[mask], then the aggregation of
\* the thread's own filtered_df.
ThreadKeySelect(w) ==
    /\ threads[w].pc = "key_select"
    /\ \E view \in Views(w) :
          threads' = [threads EXCEPT ![w] = AfterKeySelect(@, view)]
    /\ UNCHANGED <<apiVars, dashboardVars>>

\* The thread after get_first_record on what it saw of the table.
AfterFirstRecord(t, view) ==
    IF view.ok
    THEN Finished(t, RouteResponse(get_first_record(view.frame)))
    ELSE Finished(t, InternalServerError)

\* get_first_record: len(df.index), then df.iloc[0].to_dict()
ThreadFirstRecord(w) ==
    /\ threads[w].pc = "first_record"
    /\ \E view \in Views(w) :
          threads' = [threads EXCEPT ![w] = AfterFirstRecord(@, view)]
    /\ UNCHANGED <<apiVars, dashboardVars>>

NextThreads ==
    \/ \E w \in Workers : RunInThreadpool(w)
    \/ \E w \in Workers : ThreadValidateDates(w)
    \/ \E w \in Workers : ThreadReadKeyDate(w)
    \/ \E w \in Workers : ThreadBeginAssign(w)
    \/ \E w \in Workers : ThreadEndAssign(w)
    \/ \E w \in Workers : ThreadFilterMask(w)
    \/ \E w \in Workers : ThreadSelect(w)
    \/ \E w \in Workers : ThreadKeyMask(w)
    \/ \E w \in Workers : ThreadKeySelect(w)
    \/ \E w \in Workers : ThreadFirstRecord(w)

SpecThreads == InitThreads /\ [][NextThreads]_vars

\* ------------------------------------------------------------------------
\* The dashboard (app.py): a script that runs from its first line to its
\* last on every interaction of the user, with st.session_state kept between
\* the runs of one session.  response is the script's variable of that name.
\* ------------------------------------------------------------------------

\* st.session_state['token']: None, or the text a login stored.
None == [set |-> FALSE]

Some(text) == [set |-> TRUE, value |-> text]

\* if st.session_state['token']: None and the empty text are false.
Truthy(token) == token.set /\ Len(token.value) > 0

\* Mutant: the token is sent without the "Bearer " scheme.
headers_without_scheme(token) == Header(token.value)

\* headers = {"Authorization": f"Bearer {st.session_state['token']}"}
headers(token) == Header(Bearer \o token.value)

\* The entries of the sidebar selectbox and the path each one requests.
SearchActions ==
    {"Search sales by employee", "Search sales by product", "Search sales by Store"}

TotalAvgActions ==
    {"Total and average sales by store", "Total and average sales product",
     "Total and average sales employee"}

Actions == SearchActions \cup TotalAvgActions \cup {"First row test"}

ActionPath(action) ==
    CASE action = "Search sales by employee" -> "/sales/employee/"
      [] action = "Search sales by product" -> "/sales/product/"
      [] action = "Search sales by Store" -> "/sales/store/"
      [] action = "Total and average sales by store" -> "/sales/store/total_avg/"
      [] action = "Total and average sales product" -> "/sales/product/total_avg/"
      [] action = "Total and average sales employee" -> "/sales/employee/total_avg/"
      [] action = "First row test" -> "/sales/first_record/"

\* The page a run of the script draws: with a token the sidebar (its first
\* entry selected) and the widgets of the selected action, else the login
\* form; shown holds the messages of this run.
ActionsPage(action, shown) == [form |-> "actions", action |-> action, shown |-> shown]

LoginPage(shown) == [form |-> "login", shown |-> shown]

\* st.date_input(...).strftime("%Y-%m-%d"): a date the user picked.
DateInputs ==
    { <<"2", "0", "2", "3", "-", "1", "1", "-", "0", "1">>,
      <<"2", "0", "2", "3", "-", "1", "1", "-", "0", "3">> }

\* st.text_input("KeyEmployee"): a key, or the empty default.
KeyInputs == Keys \cup {""}

\* A call of requests raised (the API is not reachable).
ConnectionError == [raised |-> TRUE, error |-> "ConnectionError"]

\* requests.post(f"{API_URL}/auth/login", json=...): what the API's login
\* route answers for the credentials, or no answer at all.
PostLogin(credentials) ==
    {[raised |-> FALSE, response |-> RouteResponse(login(outcome))] :
        outcome \in SignInOutcomes(credentials)}
    \cup {ConnectionError}

\* requests.get(...) of a sales path: an answer of the API, or none.
GetSales ==
    {[raised |-> FALSE, response |-> [status |-> code, body |-> [text |-> "body"]]] :
        code \in {200, 400, 401, 404, 500}}
    \cup {ConnectionError}

InitDashboard ==
    /\ session_state = NoSession
    /\ page = NoPage
    /\ sent = NoRequest
    /\ response = NoResponse
    /\ df = NotLoaded
    /\ loaded = NotLoaded
    /\ issued = {}
    /\ pc = "idle"
    /\ request = NoRequest
    /\ endpoint = "none"
    /\ signin = NoSignIn
    /\ all_files = <<>>
    /\ threads = NoThreads

\* The first run of the script in a session: 'token' is not in the session
\* state and is set to None, so the else branch draws the login form and
\* the warning.
OpenSession ==
    /\ ~session_state.running
    /\ session_state' = [running |-> TRUE, token |-> None]
    /\ page' = LoginPage({"warning"})
    /\ UNCHANGED <<sent, response, df, loaded, issued, pc, request, endpoint,
                   signin, all_files, threads>>

\* The body of the try block of login() once requests.post has returned r
\* (response.json() has the body): 200 stores response_data['token'] and
\* reruns the script, which draws by the token; any other status shows the
\* detail as an error.  A missing key raises into the except clause.
LoginAnswered(r) ==
    IF r.status = 200 /\ "token" \in DOMAIN r.body
    THEN /\ session_state' = [session_state EXCEPT !.token = Some(r.body.token)]
         /\ page' = IF Truthy(Some(r.body.token))
                     THEN ActionsPage("Search sales by employee", {})
                     ELSE LoginPage({"warning"})
    ELSE /\ UNCHANGED session_state
         /\ page' = LoginPage({"error", "warning"})

\* One outcome of the requests.post of login(): an exception is caught and
\* shown as an error, the warning is drawn after it.
LoginOutcome(o) ==
    IF o.raised
    THEN /\ response' = NoResponse
         /\ UNCHANGED session_state
         /\ page' = LoginPage({"error", "warning"})
    ELSE /\ response' = o.response
         /\ LoginAnswered(o.response)

\* login(): the user has typed an email and a password and clicked "Login".
LoginButton ==
    /\ session_state.running
    /\ ~Truthy(session_state.token)
    /\ \E credentials \in Credentials :
          /\ sent' = [path |-> "/auth/login", authorization |-> NoHeader,
                       params |-> credentials]
          /\ \E o \in PostLogin(credentials) : LoginOutcome(o)
    /\ UNCHANGED <<df, loaded, issued, pc, request, endpoint, signin,
                   all_files, threads>>

\* The user picks an entry of the sidebar selectbox: the script runs again
\* and draws the widgets of that entry.
SelectAction ==
    /\ session_state.running
    /\ Truthy(session_state.token)
    /\ \E action \in Actions : page' = ActionsPage(action, {})
    /\ UNCHANGED <<session_state, sent, response, df, loaded, issued, pc,
                   request, endpoint, signin, all_files, threads>>

\* handle_response: the JSON of a 200, else an error with status and text;
\* an exception of requests.get is not caught and ends the run.
HandleResponse(o) ==
    IF o.raised
    THEN /\ response' = NoResponse
         /\ page' = [page EXCEPT !.shown = {"exception"}]
    ELSE /\ response' = o.response
         /\ page' = [page EXCEPT !.shown =
                        IF o.response.status = 200 THEN {"json"} ELSE {"error"}]

\* The button of one of the three "Search sales by ..." entries.
SearchSalesButton ==
    /\ session_state.running
    /\ Truthy(session_state.token)
    /\ page.action \in SearchActions
    /\ \E key \in KeyInputs, start_date \in DateInputs, end_date \in DateInputs :
          sent' = [path |-> ActionPath(page.action),
                   authorization |-> headers(session_state.token),
                   params |-> [key |-> key, start_date |-> start_date,
                               end_date |-> end_date]]
    /\ \E o \in GetSales : HandleResponse(o)
    /\ UNCHANGED <<session_state, df, loaded, issued, pc, request, endpoint,
                   signin, all_files, threads>>

\* The button of one of the three "Total and average sales ..." entries.
TotalAvgButton ==
    /\ session_state.running
    /\ Truthy(session_state.token)
    /\ page.action \in TotalAvgActions
    /\ \E key \in KeyInputs :
          sent' = [path |-> ActionPath(page.action),
                   authorization |-> headers(session_state.token),
                   params |-> [key |-> key]]
    /\ \E o \in GetSales : HandleResponse(o)
    /\ UNCHANGED <<session_state, df, loaded, issued, pc, request, endpoint,
                   signin, all_files, threads>>

\* The button of the "First row test" entry.
FirstRowTestButton ==
    /\ session_state.running
    /\ Truthy(session_state.token)
    /\ page.action = "First row test"
    /\ sent' = [path |-> ActionPath(page.action),
                 authorization |-> headers(session_state.token),
                 params |-> [none |-> TRUE]]
    /\ \E o \in GetSales : HandleResponse(o)
    /\ UNCHANGED <<session_state, df, loaded, issued, pc, request, endpoint,
                   signin, all_files, threads>>

NextDashboard ==
    \/ OpenSession
    \/ LoginButton
    \/ SelectAction
    \/ SearchSalesButton
    \/ TotalAvgButton
    \/ FirstRowTestButton

SpecDashboard == InitDashboard /\ [][NextDashboard]_vars

\* ------------------------------------------------------------------------
\* calculate_totals_and_averages on its own: the frames a total/avg route
\* passes to it, and frames of fewer columns down to none
\* ------------------------------------------------------------------------

\* A frame cut down to some of its columns.
Project(frame, columns) ==
    [frame EXCEPT !.columns = columns,
                  !.rows = [i \in 1..Len(frame.rows) |->
                               [c \in columns |-> frame.rows[i][c]]]]

\* Column sets of the argument: all, Tickets alone, no Tickets, none.
ColumnSets == {ColumnNames, {"Tickets"}, {"KeyStore"}, {}}

AggregateInputs ==
    {SelectByKey(Frame(rows), column, key) :
        rows \in Tables, column \in {"KeyEmployee", "KeyStore"}, key \in Keys}
    \cup
    {Project(Frame(rows), columns) : rows \in Tables, columns \in ColumnSets}

InitAggregate ==
    /\ request \in {[path |-> "calculate_totals_and_averages", filtered_df |-> f] :
                        f \in AggregateInputs}
    /\ df = request.filtered_df
    /\ loaded = df
    /\ issued = {}
    /\ pc = "idle"
    /\ endpoint = "none"
    /\ signin = NoSignIn
    /\ response = NoResponse
    /\ all_files = <<>>
    /\ threads = NoThreads
    /\ session_state = NoSession
    /\ page = NoPage
    /\ sent = NoRequest

\* One call of calculate_totals_and_averages, answered as a route answers.
CalculateTotalsAndAverages ==
    /\ pc = "idle"
    /\ response' = RouteResponse(calculate_totals_and_averages(request.filtered_df))
    /\ endpoint' = "calculate_totals_and_averages"
    /\ pc' = "done"
    /\ UNCHANGED <<df, loaded, issued, request, signin, all_files, threads,
                   session_state, page, sent>>

NextAggregate == CalculateTotalsAndAverages

SpecAggregate == InitAggregate /\ [][NextAggregate]_vars

\* ------------------------------------------------------------------------
\* Vocabulary of the properties (stated on the table as loaded, not on df)
\* ------------------------------------------------------------------------

Done == pc = "done"

\* The request carries "Authorization: Bearer <token>" with an issued token.
HasValidToken ==
    \E t \in issued : request.authorization = Header(Bearer \o t)

\* The middleware let the request through and its route function ran.
ReachedHandler == endpoint # "none"

\* A text of exactly the shape YYYY-MM-DD naming a day of the calendar.
IsYMD(text) ==
    /\ Len(text) = 10
    /\ text[5] = "-" /\ text[8] = "-"
    /\ \A i \in {1, 2, 3, 4, 6, 7, 9, 10} : IsDigit(text[i])
    /\ ToInt(SubSeq(text, 1, 4)) >= 1
    /\ ToInt(SubSeq(text, 6, 7)) \in 1..12
    /\ ToInt(SubSeq(text, 9, 10)) \in
           1..DaysInMonth(ToInt(SubSeq(text, 1, 4)), ToInt(SubSeq(text, 6, 7)))

\* The day a YYYY-MM-DD text names.
DayOfYMD(text) ==
    MkDate(ToInt(SubSeq(text, 1, 4)), ToInt(SubSeq(text, 6, 7)),
           ToInt(SubSeq(text, 9, 10)))

\* The calendar date of a row's stored KeyDate.
StoredDay(row) == MkDate(row.KeyDate.year, row.KeyDate.month, row.KeyDate.day)

\* A loaded row as a detail response shows it: KeyDate as its calendar date.
Shown(row) == [row EXCEPT !.KeyDate = StoredDay(row)]

\* Indices of the loaded rows with key in column and a day within [start, end].
MatchIdx(column, key, start, end) ==
    {i \in 1..Len(loaded.rows) :
        /\ loaded.rows[i][column] = key
        /\ DateLE(start, StoredDay(loaded.rows[i]))
        /\ DateLE(StoredDay(loaded.rows[i]), end)}

\* Indices of the loaded rows with key in column, whatever their date.
KeyIdx(column, key) == {i \in 1..Len(loaded.rows) : loaded.rows[i][column] = key}

\* The j-th smallest element of a set of indices.
Nth(idx, j) == CHOOSE i \in idx : Cardinality({k \in idx : k < i}) = j - 1

\* The rows a detail response returned: its records, none for a 404.
Returned == IF response.status = 200 THEN response.body.records ELSE <<>>

\* ------------------------------------------------------------------------
\* C1
\* ------------------------------------------------------------------------

\* C1: a detail request (employee, product or store) with a valid token and
\* two well-formed dates is answered 200 with a non-empty array when at least
\* one loaded row has the route's key column equal to the key and its KeyDate
\* within [start_date, end_date], and 404 when no row matches.
C1_DetailFoundOrNotFound ==
    (/\ Done
     /\ request.path \in DetailPaths
     /\ HasValidToken
     /\ IsYMD(request.params.start_date)
     /\ IsYMD(request.params.end_date))
    => IF MatchIdx(KeyColumn(request.path), request.params.key,
                   DayOfYMD(request.params.start_date),
                   DayOfYMD(request.params.end_date)) # {}
       THEN response.status = 200 /\ Len(response.body.records) >= 1
       ELSE response.status = 404

\* The example of the specification: employee "1|343", 2023-11-01 to
\* 2023-11-03, answered 200 with rows.
C1_Witness ==
    /\ Done
    /\ request.path = "/sales/employee/"
    /\ HasValidToken
    /\ request.params.key = "1|343"
    /\ IsYMD(request.params.start_date)
    /\ IsYMD(request.params.end_date)
    /\ DayOfYMD(request.params.start_date) = MkDate(2023, 11, 1)
    /\ DayOfYMD(request.params.end_date) = MkDate(2023, 11, 3)
    /\ response.status = 200
    /\ Len(response.body.records) >= 1

\* ------------------------------------------------------------------------
\* C2
\* ------------------------------------------------------------------------

\* C2: the rows a detail route returns are exactly the loaded rows whose key
\* column (the route's own: KeyEmployee, KeyProduct or KeyStore) equals the
\* key and whose KeyDate lies within [start, end], each once, in table order.
C2_FilterExact ==
    (/\ Done
     /\ request.path \in DetailPaths
     /\ response.status \in {200, 404})
    => \E v \in {validate_dates(request.params.start_date,
                                request.params.end_date)} :
       \E idx \in {MatchIdx(KeyColumn(request.path), request.params.key,
                            v.start, v.end)} :
          /\ Len(Returned) = Cardinality(idx)
          /\ \A j \in 1..Len(Returned) :
                Returned[j] = Shown(loaded.rows[Nth(idx, j)])

\* An employee request that returns one row of a two-row table whose other
\* row holds the key in the product column only.
C2_Witness ==
    /\ Done
    /\ request.path = "/sales/employee/"
    /\ response.status = 200
    /\ Len(loaded.rows) = 2
    /\ Len(response.body.records) = 1
    /\ \E i \in 1..Len(loaded.rows) :
          /\ loaded.rows[i].KeyProduct = request.params.key
          /\ loaded.rows[i].KeyEmployee # request.params.key
          /\ DateLE(response.body.records[1].KeyDate, StoredDay(loaded.rows[i]))
          /\ DateLE(StoredDay(loaded.rows[i]), response.body.records[1].KeyDate)

\* ------------------------------------------------------------------------
\* C3
\* ------------------------------------------------------------------------

\* C3: both bounds of the date interval [start_date, end_date] are
\* inclusive: for start_date <= end_date, a loaded row whose key matches and
\* whose KeyDate falls on start_date or on end_date is in the detail route's
\* result; this covers start_date = end_date.
C3_BoundsInclusive ==
    (/\ Done
     /\ request.path \in DetailPaths
     /\ response.status \in {200, 404})
    => \E v \in {validate_dates(request.params.start_date,
                                request.params.end_date)} :
       \A i \in 1..Len(loaded.rows) :
          (/\ loaded.rows[i][KeyColumn(request.path)] = request.params.key
           /\ StoredDay(loaded.rows[i]) \in {v.start, v.end}
           /\ DateLE(v.start, v.end))
          => /\ response.status = 200
             /\ \E j \in 1..Len(response.body.records) :
                    response.body.records[j] = Shown(loaded.rows[i])

\* start_date = end_date = 2023-11-03 returns a row stored at 18:00 that day.
C3_Witness ==
    /\ Done
    /\ request.path \in DetailPaths
    /\ request.params.start_date = request.params.end_date
    /\ response.status = 200
    /\ \E i \in 1..Len(loaded.rows) :
          /\ loaded.rows[i].KeyDate = Timestamp(2023, 11, 3, 18)
          /\ Shown(loaded.rows[i]) = response.body.records[1]

\* ------------------------------------------------------------------------
\* C4
\* ------------------------------------------------------------------------

\* C4: validate_dates returns the two dates when both texts are in
\* YYYY-MM-DD format (the route goes on to filter: 200 or 404), and fails
\* with 400 'Invalid date format. Use YYYY-MM-DD.' when either text is not
\* exactly in that format.
C4_ExactFormatOnly ==
    (/\ Done
     /\ request.path \in DetailPaths
     /\ ReachedHandler)
    => IF IsYMD(request.params.start_date) /\ IsYMD(request.params.end_date)
       THEN response.status \in {200, 404}
       ELSE /\ response.status = 400
            /\ response.body.detail = "Invalid date format. Use YYYY-MM-DD."

\* ------------------------------------------------------------------------
\* C5
\* ------------------------------------------------------------------------

\* C5: a request to a path that is not excluded, without an Authorization
\* header, with a header that holds no 'Bearer <token>', or with a token the
\* verifier rejects, is answered 401.
C5_Unauthenticated401 ==
    (/\ Done
     /\ request.path \notin excluded_paths
     /\ ~HasValidToken)
    => response.status = 401

\* ------------------------------------------------------------------------
\* C6
\* ------------------------------------------------------------------------

\* C6: once a login has returned a token, a request to a protected path that
\* carries it as 'Authorization: Bearer <token>' reaches its route function,
\* and the same request without the header is answered 401.
C6_TokenOpensHeaderlessIs401 ==
    (/\ Done
     /\ request.path \notin excluded_paths
     /\ issued # {})
    => /\ HasValidToken => ReachedHandler
       /\ ~request.authorization.present => response.status = 401

\* ------------------------------------------------------------------------
\* C7
\* ------------------------------------------------------------------------

\* C7: POST /auth/login reaches its route function whatever the Authorization
\* header; it answers 200 with {token: the provider's id token} when the
\* provider accepts the credentials, and 400 with the error as detail when
\* the provider call fails.
C7_Login ==
    (Done /\ request.path = "/auth/login")
    => /\ endpoint = "login"
       /\ signin.called
       /\ signin.ok => /\ response.status = 200
                       /\ response.body = [token |-> signin.idToken]
       /\ ~signin.ok => /\ response.status = 400
                        /\ response.body = [detail |-> signin.error]

\* A login without Authorization header answered 200 with the token.
C7_Witness ==
    /\ Done
    /\ request.path = "/auth/login"
    /\ ~request.authorization.present
    /\ response.status = 200
    /\ response.body.token = UserToken

\* ------------------------------------------------------------------------
\* C8
\* ------------------------------------------------------------------------

\* The loaded table with every KeyDate replaced by one value.
Redated(value) ==
    [loaded EXCEPT !.rows =
        [i \in 1..Len(loaded.rows) |-> [loaded.rows[i] EXCEPT !.KeyDate = value]]]

\* C8: a total/avg route aggregates over every row whose key column equals
\* the key, with no date bound: its response is the one computed from the
\* loaded table with any KeyDate in every row, so it is independent of the
\* rows' dates and the same before and after detail requests coerce KeyDate.
C8_TotalAvgIgnoresDates ==
    (/\ Done
     /\ request.path \in TotalAvgPaths
     /\ ReachedHandler)
    => \A value \in {Timestamp(1999, 1, 1, 0), MkDate(2999, 12, 31)} :
          response = RouteResponse(get_total_avg(Redated(value),
                                                 KeyColumn(request.path),
                                                 request.params.key))

\* A total/avg answer over matching rows, one of them stored with a time of
\* day, given after a detail request has coerced the KeyDate column.
C8_Witness ==
    /\ Done
    /\ request.path \in TotalAvgPaths
    /\ response.status = 200
    /\ df # loaded
    /\ \E i \in KeyIdx(KeyColumn(request.path), request.params.key) :
          loaded.rows[i].KeyDate.hour # 0

\* ------------------------------------------------------------------------
\* C9
\* ------------------------------------------------------------------------

\* The NetAmount values of a Tickets value, every entry of a list counted.
Entries(tickets) ==
    IF tickets.kind = "struct" THEN <<tickets.NetAmount>>
    ELSE [i \in 1..Len(tickets.items) |-> tickets.items[i].NetAmount]

RECURSIVE EntrySum(_)
\* The sum of all ticket entries of the loaded rows at the given indices.
EntrySum(idx) ==
    IF idx = {} THEN 0
    ELSE LET i == CHOOSE k \in idx : TRUE
         IN  SeqSum(Entries(loaded.rows[i].Tickets)) + EntrySum(idx \ {i})

RECURSIVE EntryCount(_)
\* The number of ticket entries of the loaded rows at the given indices.
EntryCount(idx) ==
    IF idx = {} THEN 0
    ELSE LET i == CHOOSE k \in idx : TRUE
         IN  Len(Entries(loaded.rows[i].Tickets)) + EntryCount(idx \ {i})

\* The mean of no value is NaN.
MeanOf(sum, count) ==
    IF count = 0 THEN [nan |-> TRUE] ELSE [nan |-> FALSE, num |-> sum, den |-> count]

C10_ZeroRowsZeroAverage ==
    (/\ Done
     /\ request.path \in TotalAvgPaths
     /\ ReachedHandler
     /\ KeyIdx(KeyColumn(request.path), request.params.key) = {})
    => /\ response.status = 200
       /\ response.body.total_sales = "$0.00"
       /\ response.body.average_sales = "$0.00"

\* ------------------------------------------------------------------------
\* C11
\* ------------------------------------------------------------------------

\* C11: GET /sales/first_record/ (with a valid token) answers 200 with row 0
\* of the shared table as it stands, which is the first row in load order: on
\* a freshly loaded table it is the first loaded row verbatim, and at any
\* time it is that row in every column, KeyDate naming the same day; a table
\* without rows is answered 404 'No data available.'.
C11_FirstRecord ==
    (/\ Done
     /\ request.path = "/sales/first_record/"
     /\ ReachedHandler)
    => IF Len(loaded.rows) >= 1
       THEN /\ response.status = 200
            /\ response.body.record = df.rows[1]
            /\ Shown(response.body.record) = Shown(loaded.rows[1])
            /\ df = loaded => response.body.record = loaded.rows[1]
       ELSE /\ response.status = 404
            /\ response.body.detail = "No data available."

\* first_record on a freshly loaded table of two different rows returns the
\* first of them.
C11_Witness ==
    /\ Done
    /\ request.path = "/sales/first_record/"
    /\ response.status = 200
    /\ df = loaded
    /\ Len(loaded.rows) = 2
    /\ loaded.rows[1] # loaded.rows[2]
    /\ response.body.record = loaded.rows[1]

\* ------------------------------------------------------------------------
\* C12
\* ------------------------------------------------------------------------

\* C12: after the load, whatever requests have been served (detail,
\* total/avg, first_record, login, rejected or failed ones), the shared table
\* has the rows it was loaded with: the same columns, the same number of
\* rows under the same index labels, in the same order, and every column
\* other than KeyDate holds the loaded values.
C12_RowsFixed ==
    /\ df.columns = loaded.columns
    /\ df.index = loaded.index
    /\ Len(df.rows) = Len(loaded.rows)
    /\ \A i \in 1..Len(loaded.rows) :
          \A c \in ColumnNames \ {"KeyDate"} : df.rows[i][c] = loaded.rows[i][c]

\* A two-row table after a detail request that returned one of its rows has
\* coerced KeyDate, while a later request is being answered.
C12_Witness ==
    /\ Done
    /\ Len(loaded.rows) = 2
    /\ loaded.rows[1] # loaded.rows[2]
    /\ df # loaded
    /\ request.path \in TotalAvgPaths \cup {"/sales/first_record/", "/auth/login"}

\* ------------------------------------------------------------------------
\* C13
\* ------------------------------------------------------------------------

\* What the route of a request answers on the table as loaded (for a login,
\* given the provider's outcome for its credentials).
RouteOnLoaded(req) ==
    CASE req.path \in DetailPaths ->
            RouteResponse(get_sales(loaded, req.params.key, req.params.start_date,
                                    req.params.end_date, KeyColumn(req.path),
                                    RouteNoun(req.path)))
      [] req.path \in TotalAvgPaths ->
            RouteResponse(get_total_avg(loaded, KeyColumn(req.path), req.params.key))
      [] req.path = "/sales/first_record/" ->
            RouteResponse(get_first_record(loaded))
      [] req.path = "/auth/login" -> RouteResponse(login(signin))
      [] OTHER -> response

\* C13: every request is stateless: once the middleware has let it through,
\* its response is the one its route gives on the table as loaded, whatever
\* requests were served before it (first_record and the detail routes return
\* the same records before and after a filter call has coerced KeyDate), and
\* a request without a valid token of its own never reaches a route, whatever
\* was authenticated before it.
C13_Stateless ==
    Done
    => /\ ReachedHandler
            => response = RouteOnLoaded(request)
       /\ (request.path \notin excluded_paths /\ ~HasValidToken)
            => ~ReachedHandler

\* ------------------------------------------------------------------------
\* C14
\* ------------------------------------------------------------------------

C15_NoFilesEmptyTable ==
    (Len(all_files) = 0 /\ pc # "import")
    => /\ pc # "failed"
       /\ Len(df.rows) = 0
       /\ (Done /\ request.path = "/sales/first_record/" /\ ReachedHandler)
            => response.status = 404

\* ------------------------------------------------------------------------
\* C16
\* ------------------------------------------------------------------------

\* The number of rows in the files discovered before the k-th.
Offset(k) == TotalRows(SubSeq(all_files, 1, k - 1))

\* C16: once loaded, the table is the concatenation of the snapshot files in
\* discovery order: it has as many rows as the files together, the j-th row
\* of the k-th file is at position Offset(k) + j (earlier files first, file
\* order kept), and the index is 0..n-1 without duplicates.
C16_ConcatInDiscoveryOrder ==
    pc \notin {"import", "failed"}
    => /\ Len(loaded.rows) = TotalRows(all_files)
       /\ Len(df.rows) = TotalRows(all_files)
       /\ \A k \in 1..Len(all_files) :
             \A j \in 1..Len(all_files[k]) :
                /\ loaded.rows[Offset(k) + j] = all_files[k][j]
                /\ Shown(df.rows[Offset(k) + j]) = Shown(all_files[k][j])
       /\ Len(loaded.index) = Len(loaded.rows)
       /\ \A i \in 1..Len(loaded.index) : loaded.index[i] = i - 1
       /\ \A i, j \in 1..Len(loaded.index) :
             loaded.index[i] = loaded.index[j] => i = j
       /\ df.index = loaded.index

\* Two files of one row each, the rows different: the table holds the row
\* of the first file, then the row of the second.
C16_Witness ==
    /\ pc = "idle"
    /\ Len(all_files) = 2
    /\ Len(all_files[1]) = 1
    /\ Len(all_files[2]) = 1
    /\ all_files[1][1] # all_files[2][1]
    /\ loaded.rows = <<all_files[1][1], all_files[2][1]>>

\* ------------------------------------------------------------------------
\* C17
\* ------------------------------------------------------------------------

\* C17: the KeyDate normalization of filter_dataframe is idempotent: a step
\* changes the shared table only from the table as loaded, and then to the
\* table whose KeyDate is, row by row, the calendar date of the stored value
\* (all else as before); from that table on, every further filter call
\* leaves the whole table, KeyDate included, exactly as it was.
C17_CoercionIdempotent ==
    [][df' # df
        => /\ df = loaded
           /\ Len(df'.rows) = Len(loaded.rows)
           /\ \A i \in 1..Len(loaded.rows) :
                 /\ df'.rows[i].KeyDate = StoredDay(loaded.rows[i])
                 /\ df'.rows[i] = [loaded.rows[i] EXCEPT !.KeyDate = df'.rows[i].KeyDate]
       ]_vars

\* A detail request with well-formed dates is about to run filter_dataframe
\* on a table that an earlier filter call has normalized.
C17_Witness ==
    /\ pc = "routed"
    /\ request.path \in DetailPaths
    /\ IsYMD(request.params.start_date)
    /\ IsYMD(request.params.end_date)
    /\ df # loaded
    /\ \E i \in 1..Len(loaded.rows) : loaded.rows[i].KeyDate.hour # 0

\* ------------------------------------------------------------------------
\* C20
\* ------------------------------------------------------------------------

\* C20: a detail request rejected for a malformed date leaves the shared
\* table completely unchanged: the step of a detail route that answers 400
\* does not touch the table, KeyDate included.
C20_RejectedLeavesTable ==
    [][(/\ pc = "routed"
        /\ request.path \in DetailPaths
        /\ response'.status = 400)
        => df' = df
       ]_vars

\* A detail request answered 400 on a table still as loaded, whose KeyDate a
\* coercion would have changed.
C20_Witness ==
    /\ Done
    /\ request.path \in DetailPaths
    /\ response.status = 400
    /\ df = loaded
    /\ Len(loaded.rows) >= 1
    /\ CoerceKeyDate(loaded) # loaded

\* ------------------------------------------------------------------------
\* C18
\* ------------------------------------------------------------------------

\* One request served on a table by its route, run on its own: the table
\* after it and its response.
ServedDetail(r) == [df |-> r.df, response |-> RouteResponse(r)]

Serve(frame, req) ==
    CASE req.path \in DetailPaths ->
            ServedDetail(get_sales(frame, req.params.key, req.params.start_date,
                                   req.params.end_date, KeyColumn(req.path),
                                   RouteNoun(req.path)))
      [] req.path \in TotalAvgPaths ->
            [df |-> frame,
             response |-> RouteResponse(get_total_avg(frame, KeyColumn(req.path),
                                                      req.params.key))]
      [] req.path = "/sales/first_record/" ->
            [df |-> frame, response |-> RouteResponse(get_first_record(frame))]

\* The orders in which the requests of the threads can run one after another.
Orders == {o \in [Workers -> Workers] : \A a, b \in Workers : o[a] = o[b] => a = b}

RECURSIVE TableAfter(_, _)
\* The table after the first k requests of an order ran one after another.
TableAfter(o, k) ==
    IF k = 0 THEN loaded
    ELSE Serve(TableAfter(o, k - 1), threads[o[k]].request).df

AllDone == \A w \in Workers : threads[w].pc = "done"

\* C18: whatever the interleaving of concurrent requests, some coercing the
\* shared table in place and others reading it, no corruption is reachable:
\* when all have ended, the table is the one that the same requests leave
\* when run one after another, and every request has the response it has in
\* one and the same sequential order of the requests.
C18_NoCorruption ==
    AllDone
    => /\ \A o \in Orders : df = TableAfter(o, MaxThreads)
       /\ \E o \in Orders :
             \A k \in Workers :
                threads[o[k]].response =
                    Serve(TableAfter(o, k - 1), threads[o[k]].request).response

\* ------------------------------------------------------------------------
\* C19
\* ------------------------------------------------------------------------

\* C19: in the dashboard the session token starts unset; it is set only by
\* a login request whose response status is 200, to that response's token;
\* a login answered otherwise, or not answered, leaves it unset and shows an
\* error; and a sales request is sent only in a state where the token is
\* set, carrying it as 'Authorization: Bearer <token>'.
C19_SessionToken ==
    [][/\ ~session_state.running => session_state'.token = None
       /\ (session_state.running /\ session_state'.token # session_state.token)
            => /\ sent'.path = "/auth/login"
               /\ response'.status = 200
               /\ session_state'.token = Some(response'.body.token)
       /\ (session_state.running /\ sent'.path = "/auth/login"
            /\ response'.status # 200)
            => /\ session_state'.token = None
               /\ "error" \in page'.shown
       /\ (session_state.running /\ sent'.path \in DetailPaths \cup TotalAvgPaths
                                                   \cup {"/sales/first_record/"})
            => /\ Truthy(session_state.token)
               /\ sent'.authorization.present
               /\ sent'.authorization.value = Bearer \o session_state.token.value
      ]_vars

\* After a login answered 200, a sales request has been sent with the token
\* of that answer.
C19_Witness ==
    /\ session_state.running
    /\ session_state.token = Some(UserToken)
    /\ sent.path \in DetailPaths
    /\ sent.authorization = Header(Bearer \o UserToken)
    /\ response.status = 200

\* ------------------------------------------------------------------------
\* C21
\* ------------------------------------------------------------------------

\* Both date texts of a detail request parse (validate_dates accepts them).
DatesParse(req) ==
    ~validate_dates(req.params.start_date, req.params.end_date).raised

\* C21: the errors of a detail request are decided in the order
\* authentication, date validation, emptiness.  Of every step that answers a
\* detail request: without a valid token the answer is 401, whatever the
\* dates and the key, no route function has run and the table is as it was;
\* with a valid token and a date text that does not parse the answer is 400,
\* whatever the key; and an answer of 404 is given only to a request with a
\* valid token whose two date texts parse.
C21_ErrorOrder ==
    [][(/\ ~Done
        /\ Done'
        /\ request'.path \in DetailPaths)
        => /\ ~HasValidToken'
                => /\ response'.status = 401
                   /\ ~ReachedHandler'
                   /\ df' = df
           /\ (HasValidToken' /\ ~DatesParse(request'))
                => response'.status = 400
           /\ response'.status = 404
                => (HasValidToken' /\ DatesParse(request'))
       ]_vars

====
